---- MODULE Spec2Model ----
(***************************************************************************)
(* Model of FFmpegService (the media process lifecycle manager): the       *)
(* stream registry with viewer counting, the child processes it spawns,    *)
(* the handlers wired to their events, and the timers it schedules.        *)
(* The service runs on a single-threaded event loop: every action below    *)
(* is one synchronous run of a method or of a callback.                    *)
(***************************************************************************)
EXTENDS Integers, Sequences, FiniteSets, TLC

\* ---------------------------------------------------------------- bounds
StreamIds == {"cam1", "cam2"}
RecordingIds == {"r1"}
MaxSpawns == 2    \* spawn calls that return a handle
MaxViewers == 2   \* viewers of one session
MaxMarkers == 2   \* stderr chunks of one probe process that carry a marker

NoEntry == 0

VARIABLES
    activeStreams,      \* Map<string, StreamInfo>: id -> index into infos, or NoEntry
    recordingProcesses, \* Map<string, ChildProcess>: id -> index into procs, or NoEntry
    infos,              \* the StreamInfo objects ever created (registry and closures refer to them)
    procs,              \* the ChildProcess objects ever returned by spawn
    waiters,            \* startHLSStream calls suspended in the 3 s startup wait (by StreamInfo)
    killTimers,         \* pending 5 s force-kill timers (by process)
    cleanupTimers,      \* pending 5 s cleanupStreamFiles timers (by process whose close scheduled it)
    dirs,               \* stream ids whose output directory exists
    playlists,          \* stream ids whose playlist.m3u8 exists
    hist,               \* per stream id: the calls made so far, while they are acquires then releases
    last,               \* what the step that ran last returned to its caller, or emitted
    probes,             \* testStream calls, by process: the closure's flag, the promise, the timer
    snaps,              \* generateThumbnail calls, by process: the promise and the timer
    thumbs,             \* generateThumbnail calls (by process) whose output file exists
    options,            \* the options object handed to the call that builds an argument vector
    argv                \* the argument vector that call built (ffmpegArgs)

vars == <<activeStreams, recordingProcesses, infos, procs, waiters, killTimers,
          cleanupTimers, dirs, playlists, hist, last, probes, snaps, thumbs,
          options, argv>>

\* the state of the argument builder
args == <<options, argv>>

\* the state of the calls that use no registry
util == <<probes, snaps, thumbs, options, argv>>

Terminal == {"stopped", "error"}
Live == {"starting", "running"}

Max(a, b) == IF a >= b THEN a ELSE b

Returned(op, id, p, ret) == [op |-> op, id |-> id, p |-> p, ret |-> ret]
NoReturn == Returned("none", "none", 0, "none")

\* The calls made for one id: acq acquires followed by rel releases, all of
\* which returned normally; Void once the calls for the id left that shape.
Calls(a, r) == [ok |-> TRUE, acq |-> a, rel |-> r]
Void == [ok |-> FALSE, acq |-> 0, rel |-> 0]
Acquired(h) == IF h.ok /\ h.rel = 0 THEN Calls(h.acq + 1, 0) ELSE Void
Released(h) == IF h.ok /\ h.rel < h.acq THEN Calls(h.acq, h.rel + 1) ELSE Void

InfoIdx == 1..Len(infos)
ProcIdx == 1..Len(procs)


\* ------------------------------------------------------- ChildProcess
\* spawn('ffmpeg', args): the handle it returns.  "alive": running;
\* "enoent": the binary could not be run, 'error' not yet emitted;
\* "errored": 'error' emitted, 'close' pending; "closed": 'close' emitted.
\* started: the process was created (the handle has a pid).
NewProcess(kind, id, info, ok) ==
    [kind |-> kind, id |-> id, info |-> info, started |-> ok,
     state |-> IF ok THEN "alive" ELSE "enoent",
     killed |-> FALSE, sigterm |-> 0, sigkill |-> 0]

\* subprocess.kill(signal): delivers the signal and sets .killed only while
\* the process handle exists; otherwise returns false and changes nothing.
Kill(proc, sig) ==
    IF proc.state = "alive"
    THEN IF sig = "SIGTERM"
         THEN [proc EXCEPT !.killed = TRUE, !.sigterm = @ + 1]
         ELSE [proc EXCEPT !.killed = TRUE, !.sigkill = @ + 1]
    ELSE proc

\* The 'error' of a failed spawn is emitted on the next tick of the event
\* loop: no timer and no I/O callback runs before it, only what the running
\* call still does synchronously.
NoTickPending == \A p \in ProcIdx : procs[p].state # "enoent"

\* ------------------------------------------------------------ options
\* StreamOptions / RecordingOptions (lines 6-22) in one record; an optional
\* field that is not given is "" (a string) or 0 (a number), both falsy
Opts(res, br, fr, seg, pre, dur, fmt, q) ==
    [rtspUrl |-> "rtsp://cam", resolution |-> res, bitrate |-> br, framerate |-> fr,
     segment_time |-> seg, preset |-> pre, duration |-> dur, format |-> fmt,
     quality |-> q, outputPath |-> "recordings/out.mp4"]
NoOptions == Opts("", "", 0, 0, "", 0, "", "")

\* ------------------------------------------------------------- Init
Init ==
    /\ activeStreams = [id \in StreamIds |-> NoEntry]
    /\ recordingProcesses = [id \in RecordingIds |-> NoEntry]
    /\ infos = <<>>
    /\ procs = <<>>
    /\ waiters = {}
    /\ killTimers = {}
    /\ cleanupTimers = {}
    /\ dirs = {}
    /\ playlists = {}
    /\ hist = [id \in StreamIds |-> Calls(0, 0)]
    /\ last = NoReturn
    /\ probes = <<>>
    /\ snaps = <<>>
    /\ thumbs = {}
    /\ options = NoOptions
    /\ argv = <<>>

\* ----------------------------------------------------- argument vectors
\* the inputs the builders are applied to
Resolutions == {"", "640x480"}
Bitrates == {"", "1M"}
Framerates == {0, 25}
SegmentTimes == {0, 4}
Presets == {"", "fast"}
Durations == {0, 60}
Formats == {"", "mkv"}
Qualities == {"", "low", "bogus"}
AllOptions ==
    {Opts(res, br, fr, seg, pre, dur, fmt, q) :
        res \in Resolutions, br \in Bitrates, fr \in Framerates, seg \in SegmentTimes,
        pre \in Presets, dur \in Durations, fmt \in Formats, q \in Qualities}

\* JavaScript: a string or a number used as a condition, and a || b
TruthyString(v) == v # ""
TruthyNumber(v) == v # 0
OrString(v, default) == IF TruthyString(v) THEN v ELSE default
OrNumber(v, default) == IF TruthyNumber(v) THEN v ELSE default

\* Array.prototype.indexOf: the 0-based index of the first occurrence, or -1
IndexOf(a, x) ==
    IF \E i \in 1..Len(a) : a[i] = x
    THEN (CHOOSE i \in 1..Len(a) : a[i] = x /\ \A j \in 1..(i - 1) : a[j] # x) - 1
    ELSE -1

\* Array.prototype.splice(start, 0, ...items): a negative start counts from
\* the end, and start is clamped to 0..length
Splice(a, start, items) ==
    LET n == IF start < 0 THEN Max(Len(a) + start, 0)
             ELSE IF start > Len(a) THEN Len(a) ELSE start
    IN SubSeq(a, 1, n) \o items \o SubSeq(a, n + 1, Len(a))

PlaylistPath(id) == "public/streams/" \o id \o "/playlist.m3u8"
SegmentPattern(id) == "public/streams/" \o id \o "/segment_%03d.ts"

\* lines 102-104
ResolutionIndex(a) == IndexOf(a, "-preset") + 2

\* a variant of lines 108-111 that always inserts after the preset
BitrateIndexAfterPreset(a) == IndexOf(a, "-preset") + 2

\* lines 108-111
BitrateIndex(a) ==
    IF IndexOf(a, "-s") # -1 THEN IndexOf(a, "-s") + 2 ELSE IndexOf(a, "-preset") + 2

\* lines 115-119
FramerateIndex(a) ==
    IF IndexOf(a, "-b:v") # -1 THEN IndexOf(a, "-b:v") + 2
    ELSE IF IndexOf(a, "-s") # -1 THEN IndexOf(a, "-s") + 2
    ELSE IndexOf(a, "-preset") + 2

\* lines 86-120: ffmpegArgs of startHLSStream
HLSArgs(id, o) ==
    LET a0 == <<"-i", o.rtspUrl,
                "-c:v", "libx264",
                "-preset", OrString(o.preset, "faster"),
                "-tune", "zerolatency",
                "-g", "30",
                "-sc_threshold", "0",
                "-f", "hls",
                "-hls_time", ToString(OrNumber(o.segment_time, 2)),
                "-hls_list_size", "10",
                "-hls_flags", "delete_segments+split_by_time",
                "-hls_segment_filename", SegmentPattern(id),
                PlaylistPath(id)>>
        a1 == IF TruthyString(o.resolution)
              THEN Splice(a0, ResolutionIndex(a0), <<"-s", o.resolution>>) ELSE a0
        a2 == IF TruthyString(o.bitrate)
              THEN Splice(a1, BitrateIndex(a1), <<"-b:v", o.bitrate>>) ELSE a1
    IN IF TruthyNumber(o.framerate)
       THEN Splice(a2, FramerateIndex(a2), <<"-r", ToString(o.framerate)>>) ELSE a2

\* lines 462-470
GetQualityCRF(quality) ==
    IF quality = "low" THEN "28"
    ELSE IF quality = "medium" THEN "23"
    ELSE IF quality = "high" THEN "18"
    ELSE IF quality = "uhd" THEN "15"
    ELSE "23"

\* lines 249-263: ffmpegArgs of startRecording
RecordingArgs(o) ==
    LET a0 == <<"-i", o.rtspUrl,
                "-c:v", "libx264",
                "-preset", "faster",
                "-crf", GetQualityCRF(OrString(o.quality, "medium")),
                "-c:a", "aac",
                "-f", OrString(o.format, "mp4")>>
        a1 == IF TruthyNumber(o.duration)
              THEN Splice(a0, -1, <<"-t", ToString(o.duration)>>) ELSE a0
    IN Append(a1, o.outputPath)

\* startHLSStream up to line 120, for one options object
BuildHLSArgs(id) ==
    /\ argv' = HLSArgs(id, options)
    /\ last' = Returned("hlsArgs", id, 0, "none")
    /\ UNCHANGED <<activeStreams, recordingProcesses, infos, procs, waiters, killTimers,
                   cleanupTimers, dirs, playlists, hist, probes, snaps, thumbs, options>>

\* startRecording up to line 263, for one options object
BuildRecordingArgs(id) ==
    /\ argv' = RecordingArgs(options)
    /\ last' = Returned("recordingArgs", id, 0, "none")
    /\ UNCHANGED <<activeStreams, recordingProcesses, infos, procs, waiters, killTimers,
                   cleanupTimers, dirs, playlists, hist, probes, snaps, thumbs, options>>

\* ------------------------------------------------------ startHLSStream
\* a variant of line 70 that shares every entry that is past "starting"
CanShareUnlessStarting(status) == status # "starting"

\* line 70: an existing entry is shared only in this status
CanShare(status) == status = "running"

\* lines 64-172: the synchronous part of startHLSStream, up to the await.
\* outcome: what spawn does in this call ("ok": the process runs; "enoent":
\* the binary cannot be run, the handle returned will emit 'error').
StartHLSStream(id, outcome) ==
    /\ UNCHANGED util
    /\ hist' = [hist EXCEPT ![id] = Acquired(@)]
    /\ LET existing == activeStreams[id]
       IN IF existing # NoEntry /\ CanShare(infos[existing].status)
          THEN /\ outcome = "ok"
               /\ infos[existing].viewers < MaxViewers
               /\ infos' = [infos EXCEPT ![existing].viewers = @ + 1]
               /\ last' = Returned("startHLSStream", id, existing, "locator")
               /\ UNCHANGED <<activeStreams, recordingProcesses, procs, waiters, killTimers,
                              cleanupTimers, dirs, playlists>>
          ELSE LET i == Len(infos) + 1
                   p == Len(procs) + 1
               IN /\ Len(procs) < MaxSpawns
                  /\ dirs' = dirs \cup {id}
                  /\ procs' = Append(procs, NewProcess("stream", id, i, outcome = "ok"))
                  /\ infos' = Append(infos, [id |-> id, status |-> "starting",
                                             process |-> p, viewers |-> 1])
                  /\ activeStreams' = [activeStreams EXCEPT ![id] = i]
                  /\ waiters' = waiters \cup {i}
                  /\ last' = Returned("startHLSStream", id, i, "pending")
                  /\ UNCHANGED <<recordingProcesses, killTimers, cleanupTimers, playlists>>

\* a variant of lines 172-179 that tears the session down on a startup timeout
StartHLSStreamResumeKill(i) ==
    /\ UNCHANGED util
    /\ NoTickPending
    /\ i \in waiters
    /\ waiters' = waiters \ {i}
    /\ last' = Returned("startHLSStreamResume", infos[i].id, i,
                        IF infos[i].id \in playlists THEN "locator" ELSE "error")
    /\ hist' = IF infos[i].id \in playlists THEN hist
               ELSE [hist EXCEPT ![infos[i].id] = Void]
    /\ IF infos[i].id \in playlists
       THEN UNCHANGED <<activeStreams, procs>>
       ELSE /\ procs' = [procs EXCEPT ![infos[i].process] = Kill(@, "SIGTERM")]
            /\ activeStreams' = [id \in StreamIds |->
                                   IF activeStreams[id] = i THEN NoEntry
                                   ELSE activeStreams[id]]
    /\ UNCHANGED <<recordingProcesses, infos, killTimers, cleanupTimers, dirs, playlists>>

\* lines 172-179: the continuation after the 3 s wait
StartHLSStreamResume(i) ==
    /\ UNCHANGED util
    /\ NoTickPending
    /\ i \in waiters
    /\ waiters' = waiters \ {i}
    /\ last' = Returned("startHLSStreamResume", infos[i].id, i,
                        IF infos[i].id \in playlists THEN "locator" ELSE "error")
    /\ hist' = IF infos[i].id \in playlists THEN hist
               ELSE [hist EXCEPT ![infos[i].id] = Void]
    /\ UNCHANGED <<activeStreams, recordingProcesses, infos, procs, killTimers,
                   cleanupTimers, dirs, playlists>>

\* lines 142-152: stderr 'data' handler, for a chunk that carries the marker
StderrMarker(p) ==
    /\ UNCHANGED util
    /\ NoTickPending
    /\ UNCHANGED hist
    /\ p \in ProcIdx
    /\ procs[p].kind = "stream"
    /\ procs[p].state = "alive"
    /\ infos' = [infos EXCEPT ![procs[p].info].status = "running"]
    /\ last' = Returned("emit", procs[p].id, procs[p].info, "streamStarted")
    /\ UNCHANGED <<activeStreams, recordingProcesses, procs, waiters, killTimers,
                   cleanupTimers, dirs, playlists>>

\* line 157: the event emitted by the 'close' handler, with the exit code
StreamStopped(code) == IF code = 0 THEN "streamStopped(0)" ELSE "streamStopped(1)"

\* a variant of lines 154-163 that reports every exit as a clean stop
StreamCloseAsStopped(p, code) ==
    /\ UNCHANGED util
    /\ NoTickPending
    /\ UNCHANGED hist
    /\ p \in ProcIdx
    /\ procs[p].kind = "stream"
    /\ \/ procs[p].state = "alive"
       \/ procs[p].state = "errored" /\ code # 0
    /\ procs' = [procs EXCEPT ![p].state = "closed"]
    /\ infos' = [infos EXCEPT ![procs[p].info].status = "stopped"]
    /\ cleanupTimers' = cleanupTimers \cup {p}
    /\ last' = Returned("emit", procs[p].id, procs[p].info, StreamStopped(code))
    /\ UNCHANGED <<activeStreams, recordingProcesses, waiters, killTimers, dirs, playlists>>

\* lines 154-163: 'close' handler; code 0, or nonzero / null (killed by a signal)
StreamClose(p, code) ==
    /\ UNCHANGED util
    /\ NoTickPending
    /\ UNCHANGED hist
    /\ p \in ProcIdx
    /\ procs[p].kind = "stream"
    /\ \/ procs[p].state = "alive"
       \/ procs[p].state = "errored" /\ code # 0
    /\ procs' = [procs EXCEPT ![p].state = "closed"]
    /\ infos' = [infos EXCEPT ![procs[p].info].status =
                                 IF code = 0 THEN "stopped" ELSE "error"]
    /\ cleanupTimers' = cleanupTimers \cup {p}
    /\ last' = Returned("emit", procs[p].id, procs[p].info, StreamStopped(code))
    /\ UNCHANGED <<activeStreams, recordingProcesses, waiters, killTimers, dirs, playlists>>

\* lines 165-169: 'error' handler (the spawn failed)
StreamError(p) ==
    /\ UNCHANGED util
    /\ UNCHANGED hist
    /\ p \in ProcIdx
    /\ procs[p].kind = "stream"
    /\ procs[p].state = "enoent"
    /\ procs' = [procs EXCEPT ![p].state = "errored"]
    /\ infos' = [infos EXCEPT ![procs[p].info].status = "error"]
    /\ last' = Returned("emit", procs[p].id, procs[p].info, "streamError")
    /\ UNCHANGED <<activeStreams, recordingProcesses, waiters, killTimers, cleanupTimers,
                   dirs, playlists>>

\* the running ffmpeg process creates playlist.m3u8 in its output directory
WritePlaylist(p) ==
    /\ UNCHANGED util
    /\ UNCHANGED hist
    /\ p \in ProcIdx
    /\ procs[p].kind = "stream"
    /\ procs[p].state = "alive"
    /\ procs[p].id \in dirs
    /\ procs[p].id \notin playlists
    /\ playlists' = playlists \cup {procs[p].id}
    /\ last' = NoReturn
    /\ UNCHANGED <<activeStreams, recordingProcesses, infos, procs, waiters, killTimers,
                   cleanupTimers, dirs>>

\* ---------------------------------------------------------- stopStream
\* line 198
Decrement(v) == Max(0, v - 1)

\* a variant of line 201 that stops while one viewer remains
ShouldStopEarly(v) == v <= 1

\* line 201
ShouldStop(v) == v = 0

\* a variant of lines 193-196 that reports an unknown id as stopped
NotFoundAsStopped(id) == Returned("stopStream", id, 0, "true")

\* lines 193-196: no entry for the id
NotFound(id) == Returned("stopStream", id, 0, "false")

\* lines 190-226
StopStream(id) ==
    /\ UNCHANGED util
    /\ hist' = [hist EXCEPT ![id] = Released(@)]
    /\ IF activeStreams[id] = NoEntry
       THEN /\ last' = NotFound(id)
            /\ UNCHANGED <<activeStreams, recordingProcesses, infos, procs, waiters,
                           killTimers, cleanupTimers, dirs, playlists>>
       ELSE LET i == activeStreams[id]
                v == Decrement(infos[i].viewers)
                p == infos[i].process
            IN IF ShouldStop(v)
               THEN /\ IF ~procs[p].killed
                       THEN /\ procs' = [procs EXCEPT ![p] = Kill(@, "SIGTERM")]
                            /\ killTimers' = killTimers \cup {p}
                       ELSE UNCHANGED <<procs, killTimers>>
                    /\ infos' = [infos EXCEPT ![i].viewers = v, ![i].status = "stopped"]
                    /\ activeStreams' = [activeStreams EXCEPT ![id] = NoEntry]
                    /\ last' = Returned("stopStream", id, i, "true")
                    /\ UNCHANGED <<recordingProcesses, waiters, cleanupTimers, dirs, playlists>>
               ELSE /\ infos' = [infos EXCEPT ![i].viewers = v]
                    /\ last' = Returned("stopStream", id, i, "false")
                    /\ UNCHANGED <<activeStreams, recordingProcesses, procs, waiters,
                                   killTimers, cleanupTimers, dirs, playlists>>

\* lines 208-212 (and 312-316): the force-kill timer callback
ForceKillTimer(p) ==
    /\ UNCHANGED util
    /\ NoTickPending
    /\ UNCHANGED hist
    /\ p \in killTimers
    /\ killTimers' = killTimers \ {p}
    /\ procs' = IF ~procs[p].killed
                THEN [procs EXCEPT ![p] = Kill(@, "SIGKILL")]
                ELSE procs
    /\ last' = NoReturn
    /\ UNCHANGED <<activeStreams, recordingProcesses, infos, waiters, cleanupTimers,
                   dirs, playlists>>

\* ---------------------------------------------------- cleanupStreamFiles
\* lines 447-457
CleanupStreamFiles(ids) == /\ dirs' = dirs \ ids
                           /\ playlists' = playlists \ ids

\* lines 160-162: the delayed cleanup scheduled by the 'close' handler
CleanupTimer(p) ==
    /\ UNCHANGED util
    /\ NoTickPending
    /\ UNCHANGED hist
    /\ p \in cleanupTimers
    /\ cleanupTimers' = cleanupTimers \ {p}
    /\ CleanupStreamFiles({procs[p].id})
    /\ last' = NoReturn
    /\ UNCHANGED <<activeStreams, recordingProcesses, infos, procs, waiters, killTimers>>

\* ------------------------------------------------------ startRecording
RecordingsDir == "recordings"

\* a variant of line 235 that never finds the id
AlreadyRecordingNever(id) == FALSE

\* line 235: recordingProcesses.has(recordingId)
AlreadyRecording(id) == recordingProcesses[id] # NoEntry

\* lines 231-295: the whole call (it has no await).  outcome as in
\* StartHLSStream.
StartRecording(id, outcome) ==
    /\ UNCHANGED util
    /\ UNCHANGED <<activeStreams, infos, waiters, killTimers, cleanupTimers, playlists, hist>>
    /\ IF AlreadyRecording(id)
       THEN /\ outcome = "ok"
            /\ last' = Returned("startRecording", id, recordingProcesses[id], "error")
            /\ UNCHANGED <<recordingProcesses, procs, dirs>>
       ELSE LET p == Len(procs) + 1
            IN /\ Len(procs) < MaxSpawns
               /\ dirs' = dirs \cup {RecordingsDir}
               /\ procs' = Append(procs, NewProcess("recording", id, 0, outcome = "ok"))
               /\ recordingProcesses' = [recordingProcesses EXCEPT ![id] = p]
               /\ last' = Returned("startRecording", id, p, "outputPath")

\* line 281: the event emitted by the 'close' handler, with the exit code
RecordingFinished(code) ==
    IF code = 0 THEN "recordingFinished(0)" ELSE "recordingFinished(1)"

\* a variant of lines 278-282 that leaves the registry alone
RecordingCloseKeepsEntry(p, code) ==
    /\ UNCHANGED util
    /\ NoTickPending
    /\ p \in ProcIdx
    /\ procs[p].kind = "recording"
    /\ \/ procs[p].state = "alive"
       \/ procs[p].state = "errored" /\ code # 0
    /\ procs' = [procs EXCEPT ![p].state = "closed"]
    /\ last' = Returned("emit", procs[p].id, p, RecordingFinished(code))
    /\ UNCHANGED <<activeStreams, recordingProcesses, infos, waiters, killTimers,
                   cleanupTimers, dirs, playlists, hist>>

\* lines 278-282: 'close' handler of a recording process; the event carries
\* the id, the code and the outputPath of the call that spawned p
RecordingClose(p, code) ==
    /\ UNCHANGED util
    /\ NoTickPending
    /\ p \in ProcIdx
    /\ procs[p].kind = "recording"
    /\ \/ procs[p].state = "alive"
       \/ procs[p].state = "errored" /\ code # 0
    /\ procs' = [procs EXCEPT ![p].state = "closed"]
    /\ recordingProcesses' = [recordingProcesses EXCEPT ![procs[p].id] = NoEntry]
    /\ last' = Returned("emit", procs[p].id, p, RecordingFinished(code))
    /\ UNCHANGED <<activeStreams, infos, waiters, killTimers, cleanupTimers, dirs,
                   playlists, hist>>

\* lines 284-288: 'error' handler of a recording process
RecordingError(p) ==
    /\ UNCHANGED util
    /\ p \in ProcIdx
    /\ procs[p].kind = "recording"
    /\ procs[p].state = "enoent"
    /\ procs' = [procs EXCEPT ![p].state = "errored"]
    /\ recordingProcesses' = [recordingProcesses EXCEPT ![procs[p].id] = NoEntry]
    /\ last' = Returned("emit", procs[p].id, p, "recordingError")
    /\ UNCHANGED <<activeStreams, infos, waiters, killTimers, cleanupTimers, dirs,
                   playlists, hist>>

\* ------------------------------------------------------- stopRecording
\* a variant of lines 300-324 that keeps the entry of the stopped recording
StopRecordingKeepsEntry(id) ==
    /\ UNCHANGED util
    /\ UNCHANGED <<activeStreams, infos, waiters, cleanupTimers, dirs, playlists, hist>>
    /\ IF recordingProcesses[id] = NoEntry
       THEN /\ last' = Returned("stopRecording", id, 0, "false")
            /\ UNCHANGED <<recordingProcesses, procs, killTimers>>
       ELSE LET p == recordingProcesses[id]
            IN /\ procs' = [procs EXCEPT ![p] = Kill(@, "SIGTERM")]
               /\ killTimers' = killTimers \cup {p}
               /\ UNCHANGED recordingProcesses
               /\ last' = Returned("stopRecording", id, p, "true")

\* lines 300-324
StopRecording(id) ==
    /\ UNCHANGED util
    /\ UNCHANGED <<activeStreams, infos, waiters, cleanupTimers, dirs, playlists, hist>>
    /\ IF recordingProcesses[id] = NoEntry
       THEN /\ last' = Returned("stopRecording", id, 0, "false")
            /\ UNCHANGED <<recordingProcesses, procs, killTimers>>
       ELSE LET p == recordingProcesses[id]
            IN /\ procs' = [procs EXCEPT ![p] = Kill(@, "SIGTERM")]
               /\ killTimers' = killTimers \cup {p}
               /\ recordingProcesses' = [recordingProcesses EXCEPT ![id] = NoEntry]
               /\ last' = Returned("stopRecording", id, p, "true")

\* ---------------------------------------------------------- testStream
\* what a callback of a call that uses no registry received
Ran(callback, kind, p, arg) == Returned(callback, kind, p, arg)
ExitCode(code) == IF code = 0 THEN "0" ELSE "1"

Put(f, k, v) == [x \in DOMAIN f \cup {k} |-> IF x = k THEN v ELSE f[x]]

\* a variant of lines 403-408 without the flag test
ResolveEveryTime(pr, result) ==
    [pr EXCEPT !.resolved = TRUE, !.result = result, !.resolves = @ + 1]

\* lines 403-408: resolveOnce; resolves counts the calls of resolve
ResolveOnce(pr, result) ==
    IF pr.resolved THEN pr
    ELSE [pr EXCEPT !.resolved = TRUE, !.result = result, !.resolves = @ + 1]

\* lines 389-442: the synchronous part of testStream (the promise executor)
TestStream(outcome) ==
    /\ UNCHANGED args
    /\ Len(procs) < MaxSpawns
    /\ procs' = Append(procs, NewProcess("probe", "none", 0, outcome = "ok"))
    /\ probes' = Put(probes, Len(procs) + 1,
                     [resolved |-> FALSE, result |-> "none", resolves |-> 0, timer |-> TRUE])
    /\ last' = Returned("testStream", "none", Len(procs) + 1, "pending")
    /\ UNCHANGED <<activeStreams, recordingProcesses, infos, waiters, killTimers,
                   cleanupTimers, dirs, playlists, hist, snaps, thumbs>>

\* lines 411-418: stderr 'data' handler, for a chunk that carries a marker
ProbeMarker(p) ==
    /\ UNCHANGED args
    /\ NoTickPending
    /\ p \in ProcIdx
    /\ procs[p].kind = "probe"
    /\ procs[p].state = "alive"
    /\ procs[p].sigterm < MaxMarkers
    /\ procs' = [procs EXCEPT ![p] = Kill(@, "SIGTERM")]
    /\ probes' = [probes EXCEPT ![p] = ResolveOnce(@, "true")]
    /\ last' = Ran("stderr", "probe", p, "marker")
    /\ UNCHANGED <<activeStreams, recordingProcesses, infos, waiters, killTimers,
                   cleanupTimers, dirs, playlists, hist, snaps, thumbs>>

\* lines 420-424: 'close' handler
ProbeClose(p, code) ==
    /\ UNCHANGED args
    /\ NoTickPending
    /\ p \in ProcIdx
    /\ procs[p].kind = "probe"
    /\ \/ procs[p].state = "alive"
       \/ procs[p].state = "errored" /\ code # 0
    /\ procs' = [procs EXCEPT ![p].state = "closed"]
    /\ probes' = IF ~probes[p].resolved
                 THEN [probes EXCEPT ![p] = ResolveOnce(@, IF code = 0 THEN "true" ELSE "false")]
                 ELSE probes
    /\ last' = Ran("close", "probe", p, ExitCode(code))
    /\ UNCHANGED <<activeStreams, recordingProcesses, infos, waiters, killTimers,
                   cleanupTimers, dirs, playlists, hist, snaps, thumbs>>

\* lines 426-428: 'error' handler
ProbeError(p) ==
    /\ UNCHANGED args
    /\ p \in ProcIdx
    /\ procs[p].kind = "probe"
    /\ procs[p].state = "enoent"
    /\ procs' = [procs EXCEPT ![p].state = "errored"]
    /\ probes' = [probes EXCEPT ![p] = ResolveOnce(@, "false")]
    /\ last' = Ran("error", "probe", p, "none")
    /\ UNCHANGED <<activeStreams, recordingProcesses, infos, waiters, killTimers,
                   cleanupTimers, dirs, playlists, hist, snaps, thumbs>>

\* a variant of lines 431-436 that only resolves
ProbeTimeoutNoKill(p) ==
    /\ UNCHANGED args
    /\ NoTickPending
    /\ p \in DOMAIN probes
    /\ probes[p].timer
    /\ probes' = [probes EXCEPT ![p] = [ResolveOnce(@, "false") EXCEPT !.timer = FALSE]]
    /\ last' = Ran("timeout", "probe", p, "none")
    /\ UNCHANGED <<activeStreams, recordingProcesses, infos, procs, waiters, killTimers,
                   cleanupTimers, dirs, playlists, hist, snaps, thumbs>>

\* lines 431-436: the timeout callback (the timer is never cleared)
ProbeTimeout(p) ==
    /\ UNCHANGED args
    /\ NoTickPending
    /\ p \in DOMAIN probes
    /\ probes[p].timer
    /\ procs' = IF ~procs[p].killed
                THEN [procs EXCEPT ![p] = Kill(@, "SIGTERM")]
                ELSE procs
    /\ probes' = [probes EXCEPT ![p] = [ResolveOnce(@, "false") EXCEPT !.timer = FALSE]]
    /\ last' = Ran("timeout", "probe", p, "none")
    /\ UNCHANGED <<activeStreams, recordingProcesses, infos, waiters, killTimers,
                   cleanupTimers, dirs, playlists, hist, snaps, thumbs>>

\* --------------------------------------------------- generateThumbnail
\* resolve / reject of a Promise: only the first call settles it
Settle(pr, outcome) == IF pr.promise = "pending" THEN [pr EXCEPT !.promise = outcome] ELSE pr

\* the directory of the outputPath the callers pass (public/thumbnails);
\* the service never creates it
ThumbnailsDir == "thumbnails"

\* somebody outside the service creates that directory
MakeThumbnailsDir ==
    /\ ThumbnailsDir \notin dirs
    /\ dirs' = dirs \cup {ThumbnailsDir}
    /\ last' = NoReturn
    /\ UNCHANGED <<activeStreams, recordingProcesses, infos, procs, waiters, killTimers,
                   cleanupTimers, playlists, hist, probes, snaps, thumbs, options, argv>>

\* lines 343-384: the synchronous part of generateThumbnail.  exists: a file
\* is already at outputPath
GenerateThumbnail(outcome, exists) ==
    /\ UNCHANGED args
    /\ exists => ThumbnailsDir \in dirs
    /\ Len(procs) < MaxSpawns
    /\ procs' = Append(procs, NewProcess("snapshot", "none", 0, outcome = "ok"))
    /\ snaps' = Put(snaps, Len(procs) + 1, [promise |-> "pending", timer |-> TRUE])
    /\ thumbs' = IF exists THEN thumbs \cup {Len(procs) + 1} ELSE thumbs
    /\ last' = Returned("generateThumbnail", "none", Len(procs) + 1, "pending")
    /\ UNCHANGED <<activeStreams, recordingProcesses, infos, waiters, killTimers,
                   cleanupTimers, dirs, playlists, hist, probes>>

\* the running ffmpeg process writes the image to outputPath
WriteThumbnail(p) ==
    /\ UNCHANGED args
    /\ ThumbnailsDir \in dirs
    /\ p \in ProcIdx
    /\ procs[p].kind = "snapshot"
    /\ procs[p].state = "alive"
    /\ p \notin thumbs
    /\ thumbs' = thumbs \cup {p}
    /\ last' = NoReturn
    /\ UNCHANGED <<activeStreams, recordingProcesses, infos, procs, waiters, killTimers,
                   cleanupTimers, dirs, playlists, hist, probes, snaps>>

\* a variant of lines 359-366 that looks at the exit code only
SnapshotCloseByCode(p, code) ==
    /\ UNCHANGED args
    /\ NoTickPending
    /\ p \in ProcIdx
    /\ procs[p].kind = "snapshot"
    /\ \/ procs[p].state = "alive"
       \/ procs[p].state = "errored" /\ code # 0
    /\ procs' = [procs EXCEPT ![p].state = "closed"]
    /\ snaps' = [snaps EXCEPT ![p] = Settle(@, IF code = 0 THEN "resolved" ELSE "rejected")]
    /\ last' = Ran("close", "snapshot", p, ExitCode(code))
    /\ UNCHANGED <<activeStreams, recordingProcesses, infos, waiters, killTimers,
                   cleanupTimers, dirs, playlists, hist, probes, thumbs>>

\* lines 359-366: 'close' handler
SnapshotClose(p, code) ==
    /\ UNCHANGED args
    /\ NoTickPending
    /\ p \in ProcIdx
    /\ procs[p].kind = "snapshot"
    /\ \/ procs[p].state = "alive"
       \/ procs[p].state = "errored" /\ code # 0
    /\ procs' = [procs EXCEPT ![p].state = "closed"]
    /\ snaps' = [snaps EXCEPT ![p] =
                   Settle(@, IF code = 0 /\ p \in thumbs THEN "resolved" ELSE "rejected")]
    /\ last' = Ran("close", "snapshot", p, ExitCode(code))
    /\ UNCHANGED <<activeStreams, recordingProcesses, infos, waiters, killTimers,
                   cleanupTimers, dirs, playlists, hist, probes, thumbs>>

\* lines 368-370: 'error' handler
SnapshotError(p) ==
    /\ UNCHANGED args
    /\ p \in ProcIdx
    /\ procs[p].kind = "snapshot"
    /\ procs[p].state = "enoent"
    /\ procs' = [procs EXCEPT ![p].state = "errored"]
    /\ snaps' = [snaps EXCEPT ![p] = Settle(@, "rejected")]
    /\ last' = Ran("error", "snapshot", p, "none")
    /\ UNCHANGED <<activeStreams, recordingProcesses, infos, waiters, killTimers,
                   cleanupTimers, dirs, playlists, hist, probes, thumbs>>

\* lines 373-378: the timeout callback (the timer is never cleared);
\* kill() without an argument sends SIGTERM
SnapshotTimeout(p) ==
    /\ UNCHANGED args
    /\ NoTickPending
    /\ p \in DOMAIN snaps
    /\ snaps[p].timer
    /\ IF ~procs[p].killed
       THEN /\ procs' = [procs EXCEPT ![p] = Kill(@, "SIGTERM")]
            /\ snaps' = [snaps EXCEPT ![p] = [Settle(@, "rejected") EXCEPT !.timer = FALSE]]
       ELSE /\ procs' = procs
            /\ snaps' = [snaps EXCEPT ![p].timer = FALSE]
    /\ last' = Ran("timeout", "snapshot", p, "none")
    /\ UNCHANGED <<activeStreams, recordingProcesses, infos, waiters, killTimers,
                   cleanupTimers, dirs, playlists, hist, probes, thumbs>>

\* ------------------------------------------------------------- queries
\* lines 329-331: getStreamInfo
GetStreamInfo(id) == IF activeStreams[id] = NoEntry THEN {} ELSE {infos[activeStreams[id]]}

\* lines 336-338: getActiveStreams
GetActiveStreams == {infos[activeStreams[id]] : id \in {j \in StreamIds : activeStreams[j] # NoEntry}}

\* ------------------------------------------------------------- cleanup
Registered == {activeStreams[id] : id \in StreamIds} \ {NoEntry}
Recording == {recordingProcesses[id] : id \in RecordingIds} \ {NoEntry}

\* a variant of lines 475-494 that stops at the streams
CleanupStreamsOnly ==
    /\ UNCHANGED util
    /\ Registered # {} \/ Recording # {}
    /\ LET toKill == {infos[i].process : i \in Registered}
       IN procs' = [p \in ProcIdx |->
                      IF p \in toKill /\ ~procs[p].killed
                      THEN Kill(procs[p], "SIGTERM") ELSE procs[p]]
    /\ CleanupStreamFiles({infos[i].id : i \in Registered})
    /\ activeStreams' = [id \in StreamIds |-> NoEntry]
    /\ recordingProcesses' = [id \in RecordingIds |-> NoEntry]
    /\ hist' = [id \in StreamIds |-> Void]
    /\ last' = Returned("cleanup", "none", 0, "none")
    /\ UNCHANGED <<infos, waiters, killTimers, cleanupTimers>>

\* lines 475-494
Cleanup ==
    /\ UNCHANGED util
    /\ Registered # {} \/ Recording # {}
    /\ LET toKill == {infos[i].process : i \in Registered} \cup Recording
       IN procs' = [p \in ProcIdx |->
                      IF p \in toKill /\ ~procs[p].killed
                      THEN Kill(procs[p], "SIGTERM") ELSE procs[p]]
    /\ CleanupStreamFiles({infos[i].id : i \in Registered})
    /\ activeStreams' = [id \in StreamIds |-> NoEntry]
    /\ recordingProcesses' = [id \in RecordingIds |-> NoEntry]
    /\ hist' = [id \in StreamIds |-> Void]
    /\ last' = Returned("cleanup", "none", 0, "none")
    /\ UNCHANGED <<infos, waiters, killTimers, cleanupTimers>>

\* ---------------------------------------------------------------- Next
\* the stream side of the service
Next ==
    \/ \E id \in StreamIds, o \in {"ok", "enoent"} : StartHLSStream(id, o)
    \/ \E i \in waiters : StartHLSStreamResume(i)
    \/ \E p \in ProcIdx : StderrMarker(p)
    \/ \E p \in ProcIdx, code \in {0, 1} : StreamClose(p, code)
    \/ \E p \in ProcIdx : StreamError(p)
    \/ \E p \in ProcIdx : WritePlaylist(p)
    \/ \E id \in StreamIds : StopStream(id)
    \/ \E p \in killTimers : ForceKillTimer(p)
    \/ \E p \in cleanupTimers : CleanupTimer(p)
    \/ Cleanup

Spec == Init /\ [][Next]_vars

\* the recordings
NextRec ==
    \/ \E id \in RecordingIds, o \in {"ok", "enoent"} : StartRecording(id, o)
    \/ \E id \in RecordingIds : StopRecording(id)
    \/ \E p \in ProcIdx, code \in {0, 1} : RecordingClose(p, code)
    \/ \E p \in ProcIdx : RecordingError(p)
    \/ \E p \in killTimers : ForceKillTimer(p)
    \/ Cleanup

SpecRec == Init /\ [][NextRec]_vars

\* streams and recordings side by side
NextService ==
    \/ \E id \in StreamIds, o \in {"ok", "enoent"} : StartHLSStream(id, o)
    \/ \E i \in waiters : StartHLSStreamResume(i)
    \/ \E p \in ProcIdx : StderrMarker(p)
    \/ \E p \in ProcIdx, code \in {0, 1} : StreamClose(p, code)
    \/ \E p \in ProcIdx : StreamError(p)
    \/ \E p \in ProcIdx : WritePlaylist(p)
    \/ \E id \in StreamIds : StopStream(id)
    \/ \E id \in RecordingIds, o \in {"ok", "enoent"} : StartRecording(id, o)
    \/ \E id \in RecordingIds : StopRecording(id)
    \/ \E p \in ProcIdx, code \in {0, 1} : RecordingClose(p, code)
    \/ \E p \in ProcIdx : RecordingError(p)
    \/ \E p \in killTimers : ForceKillTimer(p)
    \/ \E p \in cleanupTimers : CleanupTimer(p)
    \/ Cleanup

SpecService == Init /\ [][NextService]_vars

\* the argument builders, applied to every options object
InitArgs ==
    /\ activeStreams = [id \in StreamIds |-> NoEntry]
    /\ recordingProcesses = [id \in RecordingIds |-> NoEntry]
    /\ infos = <<>>
    /\ procs = <<>>
    /\ waiters = {}
    /\ killTimers = {}
    /\ cleanupTimers = {}
    /\ dirs = {}
    /\ playlists = {}
    /\ hist = [id \in StreamIds |-> Calls(0, 0)]
    /\ last = NoReturn
    /\ probes = <<>>
    /\ snaps = <<>>
    /\ thumbs = {}
    /\ options \in AllOptions
    /\ argv = <<>>

NextArgs ==
    \/ \E id \in StreamIds : BuildHLSArgs(id)
    \/ \E id \in RecordingIds : BuildRecordingArgs(id)

SpecArgs == InitArgs /\ [][NextArgs]_vars

\* the calls that use no registry, next to recordings that come and go
NextUtil ==
    \/ \E o \in {"ok", "enoent"} : TestStream(o)
    \/ \E p \in ProcIdx : ProbeMarker(p)
    \/ \E p \in ProcIdx, code \in {0, 1} : ProbeClose(p, code)
    \/ \E p \in ProcIdx : ProbeError(p)
    \/ \E p \in DOMAIN probes : ProbeTimeout(p)
    \/ \E o \in {"ok", "enoent"}, exists \in BOOLEAN : GenerateThumbnail(o, exists)
    \/ \E p \in ProcIdx : WriteThumbnail(p)
    \/ \E p \in ProcIdx, code \in {0, 1} : SnapshotClose(p, code)
    \/ \E p \in ProcIdx : SnapshotError(p)
    \/ \E p \in DOMAIN snaps : SnapshotTimeout(p)
    \/ MakeThumbnailsDir
    \/ \E id \in RecordingIds : StartRecording(id, "ok")
    \/ \E id \in RecordingIds : StopRecording(id)
    \/ \E p \in ProcIdx : RecordingClose(p, 0)

SpecUtil == Init /\ [][NextUtil]_vars

TypeOK ==
    /\ \A id \in StreamIds : activeStreams[id] \in {NoEntry} \cup InfoIdx
    /\ \A i \in InfoIdx : infos[i].status \in Live \cup Terminal /\ infos[i].viewers >= 0
    /\ waiters \subseteq InfoIdx
    /\ killTimers \subseteq ProcIdx
    /\ cleanupTimers \subseteq ProcIdx

\* ====================================================================
\* Properties.  A step is recognised by what it leaves in last (every
\* action sets it) or by the timer or waiter it consumes.
\* ====================================================================
ProcsOf(id) == {p \in ProcIdx : procs[p].kind = "stream" /\ procs[p].id = id}
IsLive(id) == activeStreams[id] # NoEntry /\ infos[activeStreams[id]].status \in Live
IsCall(l, op, id) == l.op = op /\ l.id = id
Resumes(i) == i \in waiters /\ i \notin waiters'
Closes(p) == procs[p].state # "closed" /\ procs'[p].state = "closed"
Errors(p) == procs[p].state = "enoent" /\ procs'[p].state = "errored"
Signalled(proc) == proc.sigterm + proc.sigkill >= 1

\* C1: an acquire that arrives while the registry holds a Starting or Running
\* entry for the id adds one viewer to that entry, spawns nothing and returns
\* the locator at once; so N acquires of a new id that are all outstanding
\* leave one process and a viewer count of N.
C1_SharingWhileLive ==
    [][\A id \in StreamIds :
         /\ (IsCall(last', "startHLSStream", id) /\ IsLive(id)) =>
               /\ Len(procs') = Len(procs)
               /\ activeStreams'[id] = activeStreams[id]
               /\ infos'[activeStreams[id]].viewers = infos[activeStreams[id]].viewers + 1
               /\ last'.ret = "locator"
         /\ (hist'[id].ok /\ hist'[id].acq >= 1 /\ hist'[id].rel = 0
               /\ activeStreams'[id] # NoEntry
               /\ infos'[activeStreams'[id]].status \in Live) =>
               /\ Cardinality({p \in 1..Len(procs') : procs'[p].id = id}) = 1
               /\ infos'[activeStreams'[id]].viewers = hist'[id].acq
      ]_vars

\* C2: once N >= 1 acquires of an id have been followed by N releases (every
\* call returned normally, no process failed to start or exited on its own),
\* exactly one process was spawned for the id and it received the
\* termination signal exactly once.
C2_OneSpawnOneTermination ==
    \A id \in StreamIds :
        (/\ hist[id].ok /\ hist[id].acq >= 1 /\ hist[id].rel = hist[id].acq
         /\ \A i \in waiters : infos[i].id # id
         /\ \A p \in ProcsOf(id) : procs[p].state = "alive" \/ procs[p].sigterm >= 1)
        => /\ Cardinality(ProcsOf(id)) = 1
           /\ \A p \in ProcsOf(id) : procs[p].sigterm = 1

\* C3: a release of a registered session takes one viewer off, floored at 0.
\* While viewers remain it returns false, keeps the entry and signals nothing;
\* when none remain it signals the process (if it still runs), marks the
\* session stopped, removes the entry and returns true.
C3_ReleaseCounts ==
    [][\A id \in StreamIds :
         (IsCall(last', "stopStream", id) /\ activeStreams[id] # NoEntry) =>
            LET i == activeStreams[id]
                p == infos[i].process
                left == IF infos[i].viewers >= 1 THEN infos[i].viewers - 1 ELSE 0
            IN /\ infos'[i].viewers = left
               /\ left > 0 => /\ last'.ret = "false"
                              /\ activeStreams'[id] = i
                              /\ infos'[i].status = infos[i].status
                              /\ procs' = procs
                              /\ killTimers' = killTimers
               /\ left = 0 => /\ last'.ret = "true"
                              /\ activeStreams'[id] = NoEntry
                              /\ infos'[i].status = "stopped"
                              /\ procs[p].state = "alive" =>
                                    /\ procs'[p].sigterm = procs[p].sigterm + 1
                                    /\ procs'[p].killed
               /\ \A j \in StreamIds \ {id} : activeStreams'[j] = activeStreams[j]
      ]_vars

\* two acquires of a running session, then two releases: the second release,
\* which returned true, has just stopped the only process
C3_Witness ==
    /\ last.op = "stopStream" /\ last.ret = "true"
    /\ hist[last.id] = Calls(2, 2)
    /\ Len(procs) = 1
    /\ procs[1].sigterm = 1
    /\ infos[1].viewers = 0

\* C4: a release of an id that has no registry entry returns false, raises
\* nothing, signals nothing and leaves every session, process, timer and
\* file as it was.
C4_ReleaseUnknownIsNoOp ==
    [][\A id \in StreamIds :
         (IsCall(last', "stopStream", id) /\ activeStreams[id] = NoEntry) =>
             /\ last'.ret = "false"
             /\ UNCHANGED <<activeStreams, recordingProcesses, infos, procs, waiters,
                            killTimers, cleanupTimers, dirs, playlists>>
      ]_vars

\* a second release of an id that was already fully released, while another
\* id is registered
C4_Witness ==
    /\ last.op = "stopStream" /\ last.ret = "false" /\ last.p = 0
    /\ activeStreams[last.id] = NoEntry
    /\ \E i \in InfoIdx : infos[i].id = last.id /\ infos[i].viewers = 0
    /\ \E id \in StreamIds \ {last.id} : IsLive(id)

\* C5: when the force-kill timer of a process fires and the process has not
\* exited, the process is sent SIGKILL.
C5_ForceKillAfterGrace ==
    [][\A p \in ProcIdx :
         (p \in killTimers /\ p \notin killTimers' /\ procs[p].state = "alive") =>
             procs'[p].sigkill = procs[p].sigkill + 1
      ]_vars

\* C6: the status of a session object never leaves stopped / error for
\* starting or running, and never returns to starting.
C6_StatusOnlyForward ==
    [][\A i \in InfoIdx :
         /\ infos[i].status \in Terminal => infos'[i].status \in Terminal
         /\ infos'[i].status = "starting" => infos[i].status = "starting"
      ]_vars

\* C7: when the process of an acquire could not be run, the call fails and
\* its session is not in the registry when it returns.
C7_SpawnFailureNotRegistered ==
    [][\A i \in InfoIdx :
         (Resumes(i) /\ ~procs[infos[i].process].started) =>
             /\ last'.ret = "error"
             /\ activeStreams'[infos[i].id] # i
      ]_vars

\* C8: when the startup wait of an acquire ends and the playlist does not
\* exist, the call fails, and that is all: no process is signalled, no timer
\* is set and the registry and the sessions are left as they were, so the
\* session stays reachable and its process can still report the marker.
C8_StartupTimeoutKeepsSession ==
    [][\A i \in InfoIdx :
         (Resumes(i) /\ infos[i].id \notin playlists) =>
             /\ last' = Returned("startHLSStreamResume", infos[i].id, i, "error")
             /\ UNCHANGED <<activeStreams, infos, procs, killTimers, cleanupTimers>>
      ]_vars

\* the call has just failed on the timeout; its session is still registered,
\* still starting, and its process runs unsignalled
C8_Witness ==
    /\ last.op = "startHLSStreamResume" /\ last.ret = "error"
    /\ activeStreams[last.id] = last.p
    /\ infos[last.p].status = "starting"
    /\ procs[infos[last.p].process].state = "alive"
    /\ ~procs[infos[last.p].process].killed

\* C9: an acquire of an id whose sessions are all dead (the registry holds a
\* stopped or failed session for it, or none after one ended) spawns a
\* process and registers a new session, starting with one viewer; the dead
\* sessions are left as they were.
C9_FreshSessionAfterTerminal ==
    [][\A id \in StreamIds :
         (/\ IsCall(last', "startHLSStream", id)
          /\ ~IsLive(id)
          /\ \E i \in InfoIdx : infos[i].id = id /\ infos[i].status \in Terminal) =>
             LET n == Len(infos) + 1
             IN /\ last' = Returned("startHLSStream", id, n, "pending")
                /\ Len(infos') = n
                /\ Len(procs') = Len(procs) + 1
                /\ activeStreams'[id] = n
                /\ infos'[n] = [id |-> id, status |-> "starting",
                               process |-> Len(procs'), viewers |-> 1]
                /\ procs'[Len(procs')].state \in {"alive", "enoent"}
                /\ procs'[Len(procs')].sigterm = 0
                /\ \A i \in InfoIdx : infos'[i] = infos[i]
      ]_vars

\* the first session of the id ended with its process and stayed in the
\* registry; the acquire that just ran registered the second one
C9_Witness ==
    /\ last = Returned("startHLSStream", last.id, 2, "pending")
    /\ Len(infos) = 2
    /\ infos[1].id = last.id
    /\ infos[1].status \in Terminal
    /\ infos[1].viewers >= 1
    /\ procs[1].state = "closed"
    /\ activeStreams[last.id] = 2

\* C10: a session is running when the acquire that created it returns the
\* locator (the playlist was found at the end of the startup wait).
C10_RunningWhenAcquireReturns ==
    [][\A i \in InfoIdx :
         (Resumes(i) /\ last'.ret = "locator" /\ infos[i].status = "starting") =>
             infos'[i].status = "running"
      ]_vars

\* C11: when the process of a Running session exits with code 0 the session
\* becomes stopped; when the process of a Starting or Running session exits
\* with another code, or its spawn fails, the session becomes error; each of
\* these steps emits an event for the session, and none of them spawns a
\* process or touches the registry.
C11_ExitMovesSessionNoRespawn ==
    [][\A p \in ProcIdx : procs[p].kind = "stream" =>
         LET i == procs[p].info
         IN /\ (Closes(p) /\ infos[i].status = "running" /\ last'.ret = "streamStopped(0)")
                  => infos'[i].status = "stopped"
            /\ (Closes(p) /\ infos[i].status \in Live /\ last'.ret # "streamStopped(0)")
                  => infos'[i].status = "error"
            /\ (Errors(p) /\ infos[i].status \in Live)
                  => infos'[i].status = "error"
            /\ Closes(p) => last' = Returned("emit", procs[p].id, i, last'.ret)
                             /\ last'.ret \in {"streamStopped(0)", "streamStopped(1)"}
            /\ Errors(p) => last' = Returned("emit", procs[p].id, i, "streamError")
            /\ (Closes(p) \/ Errors(p)) => /\ Len(procs') = Len(procs)
                                            /\ activeStreams' = activeStreams
      ]_vars

\* the process of a registered running session has just exited with a
\* nonzero code: the session is failed, still registered, and no second
\* process exists
C11_Witness ==
    /\ last.op = "emit" /\ last.ret = "streamStopped(1)"
    /\ activeStreams[last.id] = last.p
    /\ infos[last.p].status = "error"
    /\ procs[infos[last.p].process].started
    /\ procs[infos[last.p].process].state = "closed"
    /\ Len(procs) = 1

\* C12: a session leaves the stream registry (its entry is deleted, or is
\* replaced by another session) only in a step after which its viewer count
\* is 0 and its process has been sent a termination signal.
C12_LeavesOnlyReleasedAndSignalled ==
    [][\A id \in StreamIds :
         (activeStreams[id] # NoEntry /\ activeStreams'[id] # activeStreams[id]) =>
            LET i == activeStreams[id]
            IN /\ infos'[i].viewers = 0
               /\ Signalled(procs'[infos[i].process])
      ]_vars

\* C13: for one stream id there is never more than one process that has
\* been spawned and has not exited.
C13_OneLiveProcessPerId ==
    \A id \in StreamIds :
        Cardinality({p \in ProcsOf(id) : procs[p].state = "alive"}) <= 1

\* C14: a startRecording of an id that is in the recording registry fails at
\* once: no process is spawned, and the entry, every process and every timer
\* are left as they were.  A startRecording of an id that is not in it spawns
\* exactly one process and registers it before anything else can run, so the
\* second of two calls for the same new id fails.
C14_StartRecordingRejectsPresentId ==
    [][\A id \in RecordingIds :
         /\ (IsCall(last', "startRecording", id) /\ recordingProcesses[id] # NoEntry) =>
               /\ last'.ret = "error"
               /\ UNCHANGED <<recordingProcesses, procs, killTimers>>
         /\ (IsCall(last', "startRecording", id) /\ recordingProcesses[id] = NoEntry) =>
               /\ last'.ret = "outputPath"
               /\ Len(procs') = Len(procs) + 1
               /\ recordingProcesses'[id] = Len(procs')
               /\ \A p \in ProcIdx : procs'[p] = procs[p]
      ]_vars

\* the second of two startRecording calls for the same new id has just
\* failed; one process exists, it runs and it is the one registered
C14_Witness ==
    /\ last.op = "startRecording" /\ last.ret = "error"
    /\ Len(procs) = 1
    /\ recordingProcesses[last.id] = 1
    /\ procs[1].state = "alive"
    /\ procs[1].sigterm = 0

\* C15: when the process of a recording exits, with any code, the entry of
\* its id is removed from the recording registry and recordingFinished is
\* emitted for the id with the exit code (the event of process p carries the
\* outputPath of the call that spawned p).  recordingFinished is emitted for
\* a process only in the step in which it exits, hence once.
C15_ExitRemovesEntryAndNotifies ==
    [][\A p \in ProcIdx : procs[p].kind = "recording" =>
         /\ Closes(p) =>
               /\ recordingProcesses'[procs[p].id] = NoEntry
               /\ last'.op = "emit" /\ last'.id = procs[p].id /\ last'.p = p
               /\ last'.ret \in {"recordingFinished(0)", "recordingFinished(1)"}
         /\ (last'.op = "emit" /\ last'.p = p
               /\ last'.ret \in {"recordingFinished(0)", "recordingFinished(1)"}) => Closes(p)
         /\ procs[p].state = "closed" => procs'[p].state = "closed"
      ]_vars

\* a recording that nobody stopped has just exited with code 0: the event
\* was emitted and its id is not registered
C15_Witness ==
    /\ last.op = "emit" /\ last.ret = "recordingFinished(0)"
    /\ procs[last.p].state = "closed"
    /\ procs[last.p].sigterm = 0
    /\ recordingProcesses[last.id] = NoEntry

\* C16: stopRecording returns true exactly when the id is in the recording
\* registry at the call; then the process (if it still runs) is sent SIGTERM
\* and the entry is removed, so a second stop finds nothing.  For an id that
\* is not registered it returns false, signals nothing and sets no timer.
C16_StopRecordingReturnsFound ==
    [][\A id \in RecordingIds : IsCall(last', "stopRecording", id) =>
         /\ last'.ret = (IF recordingProcesses[id] # NoEntry THEN "true" ELSE "false")
         /\ recordingProcesses[id] # NoEntry =>
               LET p == recordingProcesses[id]
               IN /\ procs[p].state = "alive" => procs'[p].sigterm = procs[p].sigterm + 1
                  /\ recordingProcesses'[id] = NoEntry
         /\ recordingProcesses[id] = NoEntry =>
               UNCHANGED <<recordingProcesses, procs, killTimers>>
      ]_vars

\* the second stop of a recording has just returned false; the process was
\* signalled once, by the first stop, and still runs
C16_Witness ==
    /\ last.op = "stopRecording" /\ last.ret = "false"
    /\ Len(procs) = 1
    /\ procs[1].kind = "recording" /\ procs[1].id = last.id
    /\ procs[1].state = "alive"
    /\ procs[1].sigterm = 1

\* C17: in the step in which the promise of a testStream call is resolved
\* (by a marker, the close, the spawn error or the timeout), its process has
\* exited, was never started, or has been sent a termination signal; and no
\* step of a testStream call adds, removes or changes an entry of the stream
\* registry or of the recording registry.
C17_ProbeLeavesNoProcess ==
    [][/\ \A p \in DOMAIN probes :
             (~probes[p].resolved /\ probes'[p].resolved) =>
                 \/ procs'[p].state = "closed"
                 \/ ~procs'[p].started
                 \/ Signalled(procs'[p])
       /\ (probes' # probes \/ last'.id = "probe" \/ last'.op = "testStream") =>
             UNCHANGED <<activeStreams, recordingProcesses, infos>>
      ]_vars

\* a probe that ran while a recording was registered: the timeout has just
\* fired and resolved it false; its process still runs, signalled once, and
\* the recording is registered as before
C17_Witness ==
    /\ last = Ran("timeout", "probe", 2, "none")
    /\ probes[2].resolved /\ probes[2].result = "false"
    /\ procs[2].state = "alive" /\ procs[2].sigterm = 1
    /\ procs[1].kind = "recording" /\ procs[1].state = "alive"
    /\ recordingProcesses[procs[1].id] = 1

\* C18: once the timeout of a testStream call has fired, its promise is
\* resolved; resolve is called at most once and the result never changes;
\* a call still unresolved when its timeout fires resolves false, and a call
\* resolves true only on a marker or on an exit with code 0.
C18_ProbeResolvesOnceByTimeout ==
    [][\A p \in DOMAIN probes' :
         /\ ~probes'[p].timer => probes'[p].resolved
         /\ probes'[p].resolves <= 1
         /\ p \in DOMAIN probes =>
              /\ probes[p].resolved =>
                    /\ probes'[p].resolved
                    /\ probes'[p].result = probes[p].result
              /\ (probes[p].timer /\ ~probes'[p].timer /\ ~probes[p].resolved) =>
                    probes'[p].result = "false"
              /\ (~probes[p].resolved /\ probes'[p].result = "true") =>
                    last' \in {Ran("stderr", "probe", p, "marker"),
                               Ran("close", "probe", p, "0")}
      ]_vars

\* the process of a probe printed nothing and did not exit; the timeout has
\* fired, resolved the call false, and the process exited afterwards
C18_Witness ==
    /\ last = Ran("close", "probe", 1, "1")
    /\ DOMAIN probes = {1}
    /\ ~probes[1].timer
    /\ probes[1].resolved /\ probes[1].result = "false" /\ probes[1].resolves = 1
    /\ procs[1].started /\ procs[1].sigterm = 1

\* C19: the promise of a generateThumbnail call is resolved only in the step
\* in which its process exits with code 0 while the output file exists; an
\* exit with another code or without the file, a spawn error and the timeout
\* reject a pending promise; a settled promise stays as it is.
C19_SnapshotResolvesOnlyWithFile ==
    [][\A p \in DOMAIN snaps :
         LET pending == snaps[p].promise = "pending"
         IN /\ (pending /\ snaps'[p].promise = "resolved") =>
                  /\ Closes(p)
                  /\ last' = Ran("close", "snapshot", p, "0")
                  /\ p \in thumbs
            /\ (pending /\ Closes(p) /\ (last'.ret # "0" \/ p \notin thumbs)) =>
                  snaps'[p].promise = "rejected"
            /\ (pending /\ Errors(p)) => snaps'[p].promise = "rejected"
            /\ (pending /\ snaps[p].timer /\ ~snaps'[p].timer) =>
                  snaps'[p].promise = "rejected"
            /\ ~pending => snaps'[p].promise = snaps[p].promise
      ]_vars

\* the process of a snapshot has just exited with code 0 without leaving
\* the file: the call is rejected
C19_Witness ==
    /\ last.op = "close" /\ last.id = "snapshot" /\ last.ret = "0"
    /\ last.p \notin thumbs
    /\ snaps[last.p].promise = "rejected"
    /\ snaps[last.p].timer
    /\ procs[last.p].sigterm = 0

\* C20: whenever the promise of a generateThumbnail call is rejected, its
\* process has exited, was never started, or has been sent SIGKILL.
C20_RejectedSnapshotNotRunning ==
    \A p \in DOMAIN snaps :
        snaps[p].promise = "rejected" =>
            \/ procs[p].state = "closed"
            \/ ~procs[p].started
            \/ procs[p].sigkill >= 1

\* C21: after cleanup() both registries are empty, every process that was
\* in a registry when it was called and still ran has been sent a
\* termination signal, and the output directory of every stream that was
\* registered is gone.
C21_ShutdownTerminatesRegistered ==
    [][last'.op = "cleanup" =>
         /\ \A id \in StreamIds : activeStreams'[id] = NoEntry
         /\ \A id \in RecordingIds : recordingProcesses'[id] = NoEntry
         /\ \A i \in Registered :
               /\ procs[infos[i].process].state = "alive" =>
                     Signalled(procs'[infos[i].process])
               /\ infos[i].id \notin dirs'
               /\ infos[i].id \notin playlists'
         /\ \A p \in Recording :
               procs[p].state = "alive" => Signalled(procs'[p])
      ]_vars

\* cleanup() has just run while a stream and a recording were active: both
\* processes were signalled once and still run, nothing is registered and
\* the directory of the stream is gone
C21_Witness ==
    /\ last.op = "cleanup"
    /\ Len(procs) = 2
    /\ {procs[1].kind, procs[2].kind} = {"stream", "recording"}
    /\ \A p \in ProcIdx : procs[p].state = "alive" /\ procs[p].sigterm = 1
    /\ Registered = {} /\ Recording = {}
    /\ \A p \in ProcIdx : procs[p].id \notin dirs

\* C22: the argument vector of a recording starts with the input source,
\* ends with the destination path, and every flag in it is immediately
\* followed by its own value (-f by the format, -t by the duration), with
\* and without a duration.
RecordingValue(flag, o) ==
    IF flag = "-i" THEN o.rtspUrl
    ELSE IF flag = "-c:v" THEN "libx264"
    ELSE IF flag = "-preset" THEN "faster"
    ELSE IF flag = "-crf" THEN IF o.quality = "low" THEN "28" ELSE "23"
    ELSE IF flag = "-c:a" THEN "aac"
    ELSE IF flag = "-f" THEN IF o.format = "" THEN "mp4" ELSE o.format
    ELSE ToString(o.duration)
RecordingFlags == {"-i", "-c:v", "-preset", "-crf", "-c:a", "-f", "-t"}
C22_RecordingArgsWellFormed ==
    last.op = "recordingArgs" =>
        /\ Len(argv) >= 3
        /\ argv[1] = "-i" /\ argv[2] = options.rtspUrl
        /\ argv[Len(argv)] = options.outputPath
        /\ \A i \in 1..(Len(argv) - 1) :
              argv[i] \in RecordingFlags =>
                  argv[i + 1] = RecordingValue(argv[i], options)
        /\ (options.duration # 0) = (\E i \in 1..Len(argv) : argv[i] = "-t")

\* C23: the argument vector of a live transcode is the one an ordered
\* builder gives: input source, codec, preset, then the options that are
\* present in the order resolution, bitrate, framerate, each flag followed
\* by its value, then the HLS flags, and the playlist path last.
OrderedHLSArgs(id, o) ==
    <<"-i", o.rtspUrl, "-c:v", "libx264",
      "-preset", IF o.preset = "" THEN "faster" ELSE o.preset>>
    \o (IF o.resolution # "" THEN <<"-s", o.resolution>> ELSE <<>>)
    \o (IF o.bitrate # "" THEN <<"-b:v", o.bitrate>> ELSE <<>>)
    \o (IF o.framerate # 0 THEN <<"-r", ToString(o.framerate)>> ELSE <<>>)
    \o <<"-tune", "zerolatency", "-g", "30", "-sc_threshold", "0", "-f", "hls",
         "-hls_time", IF o.segment_time = 0 THEN "2" ELSE ToString(o.segment_time),
         "-hls_list_size", "10", "-hls_flags", "delete_segments+split_by_time",
         "-hls_segment_filename", "public/streams/" \o id \o "/segment_%03d.ts">>
    \o <<"public/streams/" \o id \o "/playlist.m3u8">>
C23_HLSArgsOrdered ==
    last.op = "hlsArgs" => argv = OrderedHLSArgs(last.id, options)

\* the vector built for all three options: 29 arguments, the three flags
\* directly after the preset value
C23_Witness ==
    /\ last.op = "hlsArgs"
    /\ options.resolution # "" /\ options.bitrate # "" /\ options.framerate # 0
    /\ Len(argv) = 29
    /\ SubSeq(argv, 5, 12) = <<"-preset", "faster", "-s", "640x480", "-b:v", "1M", "-r", "25">>
    /\ argv[29] = "public/streams/cam2/playlist.m3u8"

\* C24: whenever a process that writes an output (live transcode,
\* recording, snapshot) is spawned, its destination directory exists.
DestinationDir(proc) ==
    IF proc.kind = "stream" THEN proc.id
    ELSE IF proc.kind = "recording" THEN RecordingsDir
    ELSE ThumbnailsDir
C24_DestinationExistsAtSpawn ==
    [][Len(procs') = Len(procs) + 1 =>
         LET proc == procs'[Len(procs')]
         IN proc.kind \in {"stream", "recording", "snapshot"} =>
               DestinationDir(proc) \in dirs'
      ]_vars

\* C25: whenever the output directory of a stream id is deleted (by the
\* delayed cleanup or by cleanup()), the session registered under the id, if
\* there is one, already has status stopped or error.
C25_CleanupAfterTerminal ==
    [][\A id \in StreamIds :
         (id \in dirs /\ id \notin dirs' /\ activeStreams[id] # NoEntry) =>
             infos[activeStreams[id]].status \in Terminal
      ]_vars

\* C26: every stream process that runs and has not been sent a termination
\* signal is the process of the session registered under its id.
C26_NoUntrackedStreamProcess ==
    \A p \in ProcIdx :
        (procs[p].kind = "stream" /\ procs[p].state = "alive" /\ ~Signalled(procs[p])) =>
            activeStreams[procs[p].id] = procs[p].info

\* C27: when the delayed cleanup of an exited process runs while another
\* session, Starting or Running, is registered under the same id, the output
\* directory of the id is left in place.
C27_DelayedCleanupSparesNewSession ==
    [][\A p \in ProcIdx :
         (p \in cleanupTimers /\ p \notin cleanupTimers') =>
            LET id == procs[p].id
                cur == activeStreams[id]
            IN (cur # NoEntry /\ cur # procs[p].info /\ infos[cur].status \in Live
                  /\ id \in dirs) => id \in dirs'
      ]_vars

\* C28: after an earlier session of an id has exited and a new one was
\* created, a release that leaves at least one caller of the id who acquired
\* it and has not released it does not signal the process of the registered
\* session and does not remove its entry.
C28_CountFollowsViewersAcrossSessions ==
    [][\A id \in StreamIds :
         (/\ IsCall(last', "stopStream", id)
          /\ activeStreams[id] # NoEntry
          /\ hist'[id].ok /\ hist'[id].acq > hist'[id].rel
          /\ \A i \in waiters : infos[i].id # id
          /\ \E j \in InfoIdx : /\ j # activeStreams[id]
                                /\ infos[j].id = id
                                /\ procs[infos[j].process].state = "closed") =>
             LET p == infos[activeStreams[id]].process
             IN /\ procs'[p].sigterm = procs[p].sigterm
                /\ activeStreams'[id] = activeStreams[id]
      ]_vars

\* C29: every recording process that runs and has not been sent a
\* termination signal is the process stored in the recording registry under
\* its id.
C29_NoUntrackedRecordingProcess ==
    \A p \in ProcIdx :
        (procs[p].kind = "recording" /\ procs[p].state = "alive" /\ ~Signalled(procs[p])) =>
            recordingProcesses[procs[p].id] = p

\* C30: every session that getStreamInfo or getActiveStreams returns has
\* status starting or running.
C30_RegistryListsOnlyLive ==
    /\ \A info \in GetActiveStreams : info.status \in Live
    /\ \A id \in StreamIds : \A info \in GetStreamInfo(id) : info.status \in Live
====
